---- MODULE Spec2Model ----
(***************************************************************************)
(* qtpynodeeditor: NodeState (dynamic port re-indexing) and NodeGeometry   *)
(* (size cache and port placement) of one node.                            *)
(*                                                                         *)
(* An OrderedDict is a sequence of (key, value) entries in insertion       *)
(* order.  A Port object is an identity, its place in the sequence heap; a *)
(* new Port is appended to heap, so its identity is one no Port had        *)
(* before.  A Connection is an identity in Conns and its _ports dict is    *)
(* conn_ports[c].  Identities matter up to renaming only: between two      *)
(* operations the Ports the NodeState holds are numbered in dict order     *)
(* (inputs first) and the others are dropped; the Connections are numbered *)
(* in the order the Ports list them, and one that no Port of the node      *)
(* lists is forgotten (its identity then stands for a new Connection).     *)
(***************************************************************************)
EXTENDS Integers, Sequences, FiniteSets, TLC

\* Bounds of the model: the largest port counts the node model reports and
\* the number of Connection objects.
MaxInputs == 1
MaxOutputs == 3
NumConns == 2

\* PortType.input, PortType.output, in the iteration order of NodeState._ports.
PortTypes == <<"input", "output">>
PortTypeSet == {PortTypes[k] : k \in DOMAIN PortTypes}
Conns == 1..NumConns
\* The port counts a node model reports.
MaxCount(t) == IF t = "input" THEN MaxInputs ELSE MaxOutputs
PortCounts == {np \in [PortTypeSet -> 0..MaxOutputs] : np["input"] <= MaxInputs}
\* Python's None as an endpoint reference.
None == 0
\* A reference to a Port object that the NodeState no longer holds.
Stale == -1

VARIABLES
    num_ports,      \* node.model.num_ports : port type -> count
    ports,          \* NodeState._ports : port type -> OrderedDict index -> Port
    heap,           \* the Port objects : identity -> fields
    conn_ports,     \* Connection._ports : connection -> port type -> Port or None
    did             \* what the (first) reconciliation of the last operation
                    \* did for each port type, when that was a read accessor

VARIABLES
    layout,             \* node.style.layout_direction
    caption_visible,    \* node.model.caption_visible
    validation,         \* node.model.validation_state()
    widget,             \* whether node.model.embedded_widget() is a widget
    font,               \* the font of NodeGeometry._font_metrics and
                        \* _bold_font_metrics
    width,              \* NodeGeometry._width
    height,             \* NodeGeometry._height
    entry_height,       \* NodeGeometry._entry_height
    spacing,            \* NodeGeometry._spacing
    input_port_width,   \* NodeGeometry._input_port_width
    output_port_width,  \* NodeGeometry._output_port_width
    sync,               \* history: "new" until recalculate_size first runs
                        \* to its end, "clean" when it has and nothing
                        \* changed since, "stale" when the model changed
                        \* since, "resized" when a setter stored a size since
    ret                 \* what the last geometry read returned

nsVars == <<num_ports, ports, heap, conn_ports, did>>
modelVars == <<layout, caption_visible, validation, widget>>
geomVars == <<font, width, height, entry_height, spacing,
              input_port_width, output_port_width>>
VARIABLES
    connection,         \* what ConnectionPainter.paint reads of the connection,
                        \* its graphics object, the style and the debug flag
    canvas              \* what the last paint drew on the QPainter, in order

VARIABLES
    reaction,           \* NodeState._reaction of each node
    reacting_port_type, \* NodeState._reacting_port_type of each node
    reacting_data_type, \* NodeState._reacting_data_type of each node
    drag,               \* the connection being dragged, if any
    drop                \* history: the last drop and what it found

VARIABLES
    output_connections,     \* MultiChildNodeModel.output_connections
    data_type,              \* the keys of MultiChildNodeModel._data_type
    port_caption_visible,   \* the keys of _port_caption_visible
    max_children,           \* MultiChildNodeModel.max_children
    called                  \* history: the last call on the model

paintVars == <<connection, canvas>>
dragVars == <<reaction, reacting_port_type, reacting_data_type, drag, drop>>
treeVars == <<output_connections, data_type, port_caption_visible,
              max_children, called>>
nodeVars == <<nsVars, modelVars, geomVars, sync, ret>>
vars == <<nodeVars, paintVars, dragVars, treeVars>>

\* The nodes of a drag: the one the connection is attached to and the one it
\* is dropped on; the ports of the model are those of the latter.
Nodes == {"origin", "target"}
DataTypes == {"A", "B"}
NoData == "None"

\* No connection is painted.
NothingPainted ==
    /\ connection = [requires_port |-> FALSE, hovered |-> FALSE,
                     selected |-> FALSE, data_type_out |-> "A",
                     data_type_in |-> "A", use_data_defined_colors |-> FALSE,
                     use_debug_drawing |-> FALSE]
    /\ canvas = <<>>

\* No connection is dragged: NodeState.__init__ for the reaction.
NoDrag == [state |-> "idle", port_type |-> "none", data_type |-> NoData,
           connection |-> 0]
NoDrop == [op |-> "none", port_type |-> "none", index |-> 0,
           accepted |-> FALSE, was_reacting |-> {}, before |-> 0]
NothingDragged ==
    /\ reaction = [n \in Nodes |-> "not_reacting"]
    /\ reacting_port_type = [n \in Nodes |-> "none"]
    /\ reacting_data_type = [n \in Nodes |-> NoData]
    /\ drag = NoDrag
    /\ drop = NoDrop

\* The node model is not a MultiChildNodeModel.
NoCall == [op |-> "none", connection |-> 0, changed |-> FALSE]
NoTree ==
    /\ output_connections = <<>>
    /\ data_type = [t \in {"input", "output"} |-> {}]
    /\ port_caption_visible = [t \in {"input", "output"} |-> {}]
    /\ max_children = 0
    /\ called = NoCall

----------------------------------------------------------------------------
\* F applied to the value of e (e is evaluated once).
Let(e, F(_)) == CHOOSE r \in {F(x) : x \in {e}} : TRUE

\* OrderedDict helpers.
Keys(od) == {od[k].key : k \in DOMAIN od}
HasKey(od, i) == \E k \in DOMAIN od : od[k].key = i
Lookup(od, i) == od[CHOOSE k \in DOMAIN od : od[k].key = i].port

NoDid == [t \in PortTypeSet |-> "skipped"]

\* The state a NodeState operation works on.
Cur ==
    [ports |-> ports, heap |-> heap, conn |-> conn_ports, err |-> "none",
     did |-> NoDid]

\* Port(node, port_type, index): a port of this node with no connection.
NewPort(t, i) == [port_type |-> t, index |-> i, connections |-> <<>>]

\* The policy of a port type: an input holds one connection, an output many.
Capacity(t) == IF t = "input" THEN 1 ELSE NumConns + 1

\* Port.add_connection(conn): CapacityExceeded when the policy forbids one more.
AddConnection(st, pid, c) ==
    IF Len(st.heap[pid].connections) >= Capacity(st.heap[pid].port_type)
    THEN [st EXCEPT !.err = "capacity"]
    ELSE [st EXCEPT !.heap[pid].connections = Append(@, c)]

\* Port.remove_connection(conn): a no-op when conn is not in the port.
RemoveConnection(st, pid, c) ==
    [st EXCEPT !.heap[pid].connections = SelectSeq(@, LAMBDA x : x # c)]

\* self._ports[port_type][i] = Port(self.node, port_type, index=i), for every
\* i of the sequence idx in turn.
StorePorts(st, t, idx) ==
    [st EXCEPT
        !.heap = @ \o [j \in DOMAIN idx |-> NewPort(t, idx[j])],
        !.ports[t] = @ \o [j \in DOMAIN idx |->
                              [key |-> idx[j], port |-> Len(st.heap) + j]]]

\* range(n)
Range(n) == [j \in 1..n |-> j - 1]

\* Mutant: the new ports are numbered from 1.
NewPortsDictFromOne(st, t, n) ==
    StorePorts([st EXCEPT !.ports[t] = <<>>], t, [j \in 1..n |-> j])

\* self._ports[port_type] = OrderedDict((i, Port(...)) for i in range(num_ports))
NewPortsDict(st, t, n) == StorePorts([st EXCEPT !.ports[t] = <<>>], t, Range(n))

\* Mutant: growth builds every port anew.
AppendPortsRecreate(st, t, n) == NewPortsDict(st, t, n)

\* for i in range(num_ports): if i not in self._ports[port_type]: add Port i
AppendPorts(st, t, n) ==
    StorePorts(st, t, SelectSeq(Range(n), LAMBDA i : ~HasKey(st.ports[t], i)))

\* old_connections: the connection list of every non-empty port, in dict order.
GatherConnections(st, t) ==
    SelectSeq([k \in DOMAIN st.ports[t] |->
                  [key |-> st.ports[t][k].key,
                   conns |-> st.heap[st.ports[t][k].port].connections]],
              LAMBDA e : Len(e.conns) # 0)

\* Mutant: the endpoint is not repointed.
ReattachNoRepoint(st, t, pid, c) == AddConnection(st, pid, c)

\* Mutant: the connection is put in front of the new port's list.
ReattachInFront(st, t, pid, c) ==
    [st EXCEPT !.conn[c][t] = pid, !.heap[pid].connections = <<c>> \o @]

\* old_conn._ports[port_type] = new_port; new_port.add_connection(old_conn)
Reattach(st, t, pid, c) == AddConnection([st EXCEPT !.conn[c][t] = pid], pid, c)

\* for old_conn in connections: ...
RECURSIVE AttachList(_, _, _, _, _)
AttachList(st, t, pid, conns, j) ==
    IF j > Len(conns) \/ st.err # "none" THEN st
    ELSE Let(Reattach(st, t, pid, conns[j]),
             LAMBDA s : AttachList(s, t, pid, conns, j + 1))

\* for new_port, connections in zip(new ports, old_connections.values()): ...
RECURSIVE Reassign(_, _, _, _)
Reassign(st, t, old, k) ==
    IF k > Len(old) \/ k > Len(st.ports[t]) \/ st.err # "none" THEN st
    ELSE Let(AttachList(st, t, st.ports[t][k].port, old[k].conns, 1),
             LAMBDA s : Reassign(s, t, old, k + 1))

\* The shrink branch of _update_ports for one port type.
ShrinkPorts(st, t, n) ==
    Let(GatherConnections(st, t), LAMBDA old :
        IF Len(old) > n
        THEN [st EXCEPT !.err = "reindex", !.did[t] = "raise"]
        ELSE Let([NewPortsDict(st, t, n) EXCEPT !.did[t] = "shrink"],
                 LAMBDA s : Reassign(s, t, old, 1)))

\* Mutant: equal counts are not skipped.
UpdateTypeNoSkip(st, t) ==
    IF num_ports[t] > Len(st.ports[t])
    THEN [AppendPorts(st, t, num_ports[t]) EXCEPT !.did[t] = "grow"]
    ELSE ShrinkPorts(st, t, num_ports[t])

\* The body of the loop of _update_ports for one port type.
UpdateType(st, t) ==
    IF num_ports[t] = Len(st.ports[t]) THEN [st EXCEPT !.did[t] = "same"]
    ELSE IF num_ports[t] > Len(st.ports[t])
         THEN [AppendPorts(st, t, num_ports[t]) EXCEPT !.did[t] = "grow"]
         ELSE ShrinkPorts(st, t, num_ports[t])

\* NodeState._update_ports: the port types in order, stopping at an exception.
RECURSIVE UpdateFrom(_, _)
UpdateFrom(st, k) ==
    IF k > Len(PortTypes) \/ st.err # "none" THEN st
    ELSE Let(UpdateType(st, PortTypes[k]), LAMBDA s : UpdateFrom(s, k + 1))

UpdatePorts(st) == UpdateFrom([st EXCEPT !.did = NoDid], 1)

----------------------------------------------------------------------------
\* The accessors of NodeState: the state each leaves and the number of ports
\* of each type in what it returned or scanned (-1: that type was not read).
Sees(st, ts) ==
    [t \in PortTypeSet |-> IF t \in ts THEN Len(st.ports[t]) ELSE -1]

Result(st, ts) ==
    [st |-> st, seen |-> IF st.err = "none" THEN Sees(st, ts) ELSE Sees(st, {})]

\* NodeState.__getitem__(key)
DoGetItem(st, t) == Let(UpdatePorts(st), LAMBDA s : Result(s, {t}))

\* NodeState.input_ports, NodeState.output_ports
DoInputPorts(st) == DoGetItem(st, "input")
DoOutputPorts(st) == DoGetItem(st, "output")

\* One accessor after another; the second is not reached when the first raises.
Both(r1, Second(_)) ==
    IF r1.st.err # "none" THEN r1
    ELSE Let(Second(r1.st), LAMBDA r2 :
             [st |-> [r2.st EXCEPT !.did = r1.st.did],
              seen |-> IF r2.st.err # "none" THEN r2.seen
                       ELSE [t \in PortTypeSet |->
                                IF r1.seen[t] # -1 THEN r1.seen[t]
                                ELSE r2.seen[t]]])

\* NodeState.ports: input_ports, then output_ports
DoPorts(st) == Let(DoInputPorts(st), LAMBDA r : Both(r, DoOutputPorts))

\* Mutant: no reconciliation before the scan.
DoInputConnectionsStale(st) == Result(st, {"input"})

\* NodeState.input_connections, NodeState.output_connections
DoInputConnections(st) == Let(UpdatePorts(st), LAMBDA s : Result(s, {"input"}))
DoOutputConnections(st) == Let(UpdatePorts(st), LAMBDA s : Result(s, {"output"}))

\* NodeState.all_connections: input_connections + output_connections
DoAllConnections(st) ==
    Let(DoInputConnections(st), LAMBDA r : Both(r, DoOutputConnections))

\* self._ports[port_type][port_index]: KeyError for an index that is no key.
PortAt(st, t, i, F(_, _)) ==
    IF st.err # "none" THEN st
    ELSE IF ~HasKey(st.ports[t], i) THEN [st EXCEPT !.err = "key"]
    ELSE F(st, Lookup(st.ports[t], i))

\* NodeState.connections(port_type, port_index)
DoConnections(st, t, i) ==
    Let(UpdatePorts(st), LAMBDA s :
        Result(PortAt(s, t, i, LAMBDA s1, p : s1), {t}))

\* NodeState.erase_connection(port_type, port_index, connection)
DoEraseConnection(st, t, i, c) ==
    Let(UpdatePorts(st), LAMBDA s :
        Result(PortAt(s, t, i, LAMBDA s1, p : RemoveConnection(s1, p, c)), {t}))

\* A new Connection is attached to node[t][i]: the port is looked up through
\* NodeState.__getitem__, the connection is added to it and the connection's
\* endpoint of that type is the port.
DoAttach(st, t, i, c) ==
    Let(DoGetItem(st, t).st, LAMBDA s :
        Result(PortAt(s, t, i, LAMBDA s1, p :
                   Let(AddConnection(s1, p, c), LAMBDA s2 :
                       IF s2.err # "none" THEN s2
                       ELSE [s2 EXCEPT !.conn[c] =
                                [tt \in PortTypeSet |->
                                    IF tt = t THEN p ELSE None]])),
               {t}))

----------------------------------------------------------------------------
\* The Port identities the NodeState holds, in dict order, inputs first.
LiveSeq(st) ==
    [k \in DOMAIN st.ports["input"] |-> st.ports["input"][k].port]
        \o [k \in DOMAIN st.ports["output"] |-> st.ports["output"][k].port]

\* The number a Port identity is stored under between operations.
RenameRef(live, p) ==
    IF p = None THEN None
    ELSE IF \E k \in DOMAIN live : live[k] = p
         THEN CHOOSE k \in DOMAIN live : live[k] = p
         ELSE Stale

\* The connections the Ports of live list, in that order.
RECURSIVE Flatten(_)
Flatten(lists) ==
    IF lists = <<>> THEN <<>> ELSE Head(lists) \o Flatten(Tail(lists))

ListedSeq(st, live) ==
    Flatten([k \in DOMAIN live |-> st.heap[live[k]].connections])

\* What an operation leaves behind, with the identities renumbered: Port k is
\* the k-th the NodeState holds, Connection n the n-th its Ports list.
Settle(st) ==
    Let(LiveSeq(st), LAMBDA live : Let(ListedSeq(st, live), LAMBDA listed :
        [ports |-> [t \in PortTypeSet |->
                       [k \in DOMAIN st.ports[t] |->
                           [key |-> st.ports[t][k].key,
                            port |-> RenameRef(live, st.ports[t][k].port)]]],
         heap |-> [k \in DOMAIN live |->
                      [st.heap[live[k]] EXCEPT !.connections =
                          [j \in DOMAIN @ |->
                              CHOOSE n \in DOMAIN listed : listed[n] = @[j]]]],
         conn |-> [c \in Conns |->
                      [t \in PortTypeSet |->
                          IF c \in DOMAIN listed
                          THEN RenameRef(live, st.conn[listed[c]][t])
                          ELSE None]]]))

Commit(r) ==
    \E s \in {Settle(r.st)} :
        /\ ports' = s.ports
        /\ heap' = s.heap
        /\ conn_ports' = s.conn
        /\ did' = r.st.did
        /\ UNCHANGED num_ports

----------------------------------------------------------------------------
\* NodeGeometry.  Qt's font metrics and the style are outside the source
\* tree: a font stands for the numbers its metrics report, and a QTransform
\* for the translation it applies.  Coordinates are exact fractions n / d.
Layouts == {"horizontal", "vertical"}
Fonts == {"default", "large"}
NoFont == "none"
Validations == {"valid", "warning"}
GeomPortTypes == PortTypeSet \cup {"none"}

Max(a, b) == IF a >= b THEN a ELSE b

\* style.connection_point_diameter
PointDiameter == 8
\* QFontMetrics(font).height()
FontHeight(f) == IF f = "default" THEN 15 ELSE 20
\* the bold metrics' boundingRect of the caption, of the validation message
CaptionRect(f) ==
    IF f = "default" THEN [w |-> 60, h |-> 16] ELSE [w |-> 80, h |-> 21]
ValidationRect(f) ==
    IF f = "default" THEN [w |-> 130, h |-> 16] ELSE [w |-> 170, h |-> 21]
\* QFontMetrics.horizontalAdvance(port.display_text), the same for every port
\* of a port type
HorizontalAdvance(f, t) ==
    (IF t = "input" THEN 30 ELSE 40) + (IF f = "default" THEN 0 ELSE 10)
\* widget.width(), widget.height() of the embedded widget
WidgetSize == [w |-> 50, h |-> 90]

\* What NodeGeometry.__init__ stores.
InitGeometry ==
    [font |-> "default", width |-> 100, height |-> 150, entry_height |-> 20,
     spacing |-> 20, input_port_width |-> 70, output_port_width |-> 70]

\* The geometry object and the model it reads, in the current state.
Geo ==
    [font |-> font, width |-> width, height |-> height,
     entry_height |-> entry_height, spacing |-> spacing,
     input_port_width |-> input_port_width,
     output_port_width |-> output_port_width]
Model ==
    [layout |-> layout, num_ports |-> num_ports,
     caption_visible |-> caption_visible, validation |-> validation,
     widget |-> widget]

\* NodeGeometry.caption_height, caption_width
CaptionHeight(g, m) == IF ~m.caption_visible THEN 0 ELSE CaptionRect(g.font).h
CaptionWidth(g, m) == IF ~m.caption_visible THEN 0 ELSE CaptionRect(g.font).w
\* NodeGeometry.validation_height, validation_width
ValidationHeight(g) == ValidationRect(g.font).h
ValidationWidth(g) == ValidationRect(g.font).w

\* NodeGeometry.port_width, on the ports node[port_type] returned
PortWidth(g, st, t) ==
    IF Len(st.ports[t]) = 0 THEN 0 ELSE HorizontalAdvance(g.font, t)

\* A size whose width has the spacing once, and whose vertical height follows
\* the number of entries.
NewSizeOneSpacing(g, m) ==
    LET max_num_of_entries == Max(m.num_ports["input"], m.num_ports["output"])
        port_height == g.entry_height + g.spacing
        h0 == port_height * max_num_of_entries
        w0 == IF m.layout = "horizontal"
              THEN g.input_port_width + g.output_port_width + g.spacing
              ELSE Max(g.input_port_width, g.output_port_width)
                       * max_num_of_entries + g.spacing
        h1 == (IF m.widget THEN Max(h0, WidgetSize.h) ELSE h0)
                  + CaptionHeight(g, m)
        w1 == Max(IF m.widget THEN w0 + WidgetSize.w ELSE w0,
                  CaptionWidth(g, m))
    IN  IF m.validation # "valid"
        THEN [w |-> Max(w1, ValidationWidth(g)),
              h |-> h1 + ValidationHeight(g) + g.spacing]
        ELSE [w |-> w1, h |-> h1]

\* recalculate_size from max_num_of_entries on: the size it computes, the
\* entry height and the port widths being stored in g already.
NewSize(g, m) ==
    LET max_num_of_entries == Max(m.num_ports["input"], m.num_ports["output"])
        port_height == g.entry_height + g.spacing
        h0 == IF m.layout = "horizontal" THEN port_height * max_num_of_entries
              ELSE port_height * 2
        w0 == IF m.layout = "horizontal"
              THEN g.input_port_width + g.output_port_width + 2 * g.spacing
              ELSE Max(g.input_port_width, g.output_port_width)
                       * max_num_of_entries + 2 * g.spacing
        h1 == (IF m.widget THEN Max(h0, WidgetSize.h) ELSE h0)
                  + CaptionHeight(g, m)
        w1 == Max(IF m.widget THEN w0 + WidgetSize.w ELSE w0,
                  CaptionWidth(g, m))
    IN  IF m.validation # "valid"
        THEN [w |-> Max(w1, ValidationWidth(g)),
              h |-> h1 + ValidationHeight(g) + g.spacing]
        ELSE [w |-> w1, h |-> h1]

\* A recalculation that stores the height and leaves the old width.
StoreHeightOnly(g, sz) == [g EXCEPT !.height = sz.h]

\* self._width = width; self._height = height
StoreSize(g, sz) == [g EXCEPT !.width = sz.w, !.height = sz.h]

\* NodeGeometry.recalculate_size(font); f = NoFont is the call without a font.
\* port_width reads node[port_type], which reconciles the ports and may
\* raise; what was assigned before the raise stays assigned.
DoRecalculateSize(g, m, st, f) ==
    IF f # NoFont /\ f = g.font
    THEN [g |-> g, st |-> st, status |-> "unchanged"]
    ELSE Let([g EXCEPT !.font = IF f = NoFont THEN @ ELSE f,
                       !.entry_height = FontHeight(IF f = NoFont THEN g.font
                                                   ELSE f)],
             LAMBDA g1 : Let(DoGetItem(st, "input"),
             LAMBDA r1 :
                 IF r1.st.err # "none"
                 THEN [g |-> g1, st |-> r1.st, status |-> "raised"]
                 ELSE Let([g1 EXCEPT !.input_port_width =
                                         PortWidth(g1, r1.st, "input")],
                 LAMBDA g2 : Let(DoGetItem(r1.st, "output"),
                 LAMBDA r2 :
                     IF r2.st.err # "none"
                     THEN [g |-> g2, st |-> r2.st, status |-> "raised"]
                     ELSE Let([g2 EXCEPT !.output_port_width =
                                             PortWidth(g2, r2.st, "output")],
                     LAMBDA g3 :
                         [g |-> StoreSize(g3, NewSize(g3, m)),
                          st |-> [r2.st EXCEPT !.did = r1.st.did],
                          status |-> "done"])))))

\* Coordinates: the fraction n / d with d > 0; a QTransform as a translation.
Rat(n, d) == [n |-> n, d |-> d]
RatEq(a, b) == a.n * b.d = b.n * a.d
RatLess(a, b) == a.n * b.d < b.n * a.d
RatPlus(a, k) == Rat(a.n + k * a.d, a.d)
Identity == [dx |-> 0, dy |-> 0]
Transforms == {Identity, [dx |-> 7, dy |-> -3]}
Raised(e) == [err |-> e, x |-> Rat(0, 1), y |-> Rat(0, 1)]

\* A horizontal position that ignores the index.
CalcHorizontalSameRow(g, m, t, i) ==
    IF t = "output"
    THEN [err |-> "none", x |-> Rat(g.width + PointDiameter, 1),
          y |-> Rat(2 * CaptionHeight(g, m) + g.entry_height + g.spacing, 2)]
    ELSE IF t = "input"
    THEN [err |-> "none", x |-> Rat(-PointDiameter, 1),
          y |-> Rat(2 * CaptionHeight(g, m) + g.entry_height + g.spacing, 2)]
    ELSE Raised("ValueError")

\* NodeGeometry._calc_horizontal_port_position
CalcHorizontalPortPosition(g, m, t, i) ==
    LET step == g.entry_height + g.spacing
        total_height == Rat(2 * (CaptionHeight(g, m) + step * i) + step, 2)
    IN  IF t = "output"
        THEN [err |-> "none", x |-> Rat(g.width + PointDiameter, 1),
              y |-> total_height]
        ELSE IF t = "input"
        THEN [err |-> "none", x |-> Rat(-PointDiameter, 1), y |-> total_height]
        ELSE Raised("ValueError")

\* A vertical position that divides the width by the port count.
CalcVerticalNoMargin(g, m, t, i) ==
    IF t \notin DOMAIN m.num_ports THEN Raised("KeyError")
    ELSE IF m.num_ports[t] = 0 THEN Raised("ZeroDivisionError")
    ELSE [err |-> "none", x |-> Rat(g.width * (i + 1), m.num_ports[t]),
          y |-> IF t = "output" THEN Rat(g.height + PointDiameter, 1)
                ELSE Rat(-PointDiameter, 1)]

\* NodeGeometry._calc_vertical_port_position; the model keeps a count for
\* the input and the output ports only.
CalcVerticalPortPosition(g, m, t, i) ==
    IF t \notin DOMAIN m.num_ports THEN Raised("KeyError")
    ELSE LET total_num_ports == m.num_ports[t]
             x == Rat(g.width * (i + 1), total_num_ports + 1)
         IN  IF t = "output"
             THEN [err |-> "none", x |-> x,
                   y |-> Rat(g.height + PointDiameter, 1)]
             ELSE IF t = "input"
             THEN [err |-> "none", x |-> x, y |-> Rat(-PointDiameter, 1)]
             ELSE Raised("ValueError")

\* QTransform.map
Map(tr, p) ==
    IF p.err # "none" THEN p
    ELSE [p EXCEPT !.x = RatPlus(@, tr.dx), !.y = RatPlus(@, tr.dy)]

\* NodeGeometry.port_scene_position
DoPortScenePosition(g, m, t, i, tr) ==
    Map(tr, IF m.layout = "horizontal"
            THEN CalcHorizontalPortPosition(g, m, t, i)
            ELSE CalcVerticalPortPosition(g, m, t, i))

\* Port.get_mapped_scene_position: the scene position of the Port's own
\* port type and index.
GetMappedScenePosition(g, m, st, pid, tr) ==
    DoPortScenePosition(g, m, st.heap[pid].port_type, st.heap[pid].index, tr)

\* distance < tolerance, for pos - scene_point and the tolerance
\* 2 * connection_point_diameter, compared as squares.
Nearby(pos, pt) ==
    \A dx \in {RatPlus(pos.x, 0 - pt.x)} : \A dy \in {RatPlus(pos.y, 0 - pt.y)} :
        dx.n * dx.n * dy.d * dy.d + dy.n * dy.n * dx.d * dx.d
            < (2 * PointDiameter) * (2 * PointDiameter)
                  * dx.d * dx.d * dy.d * dy.d

\* A scan that keeps the last port in range instead of stopping at the first.
ScanPortsNoBreak(g, m, st, t, pt, tr) ==
    LET od == st.ports[t]
        hits == {k \in DOMAIN od :
                    Nearby(GetMappedScenePosition(g, m, st, od[k].port, tr), pt)}
    IN  IF hits = {} THEN None
        ELSE od[CHOOSE k \in hits : \A j \in hits : j <= k].port

\* The loop of check_hit_scene_point over the items of state[port_type], in
\* the order of the dictionary: the first port in range, or None.
ScanPorts(g, m, st, t, pt, tr) ==
    LET od == st.ports[t]
        hits == {k \in DOMAIN od :
                    Nearby(GetMappedScenePosition(g, m, st, od[k].port, tr), pt)}
    IN  IF hits = {} THEN None
        ELSE od[CHOOSE k \in hits : \A j \in hits : k <= j].port

\* NodeGeometry.check_hit_scene_point
DoCheckHitScenePoint(g, m, st, t, pt, tr) ==
    IF t = "none" THEN [st |-> st, port |-> None]
    ELSE Let(DoGetItem(st, t), LAMBDA r :
             IF r.st.err # "none" THEN [st |-> r.st, port |-> None]
             ELSE [st |-> r.st, port |-> ScanPorts(g, m, r.st, t, pt, tr)])

\* NodeGeometry.width, height, size, bounding_rect
DoWidth(g) == g.width
DoHeight(g) == g.height
DoSize(g) == [w |-> DoWidth(g), h |-> DoHeight(g)]
DoBoundingRect(g) ==
    [x |-> 0 - 4 * PointDiameter, y |-> 0 - 4 * PointDiameter,
     w |-> g.width + 2 * (4 * PointDiameter),
     h |-> g.height + 2 * (4 * PointDiameter)]

----------------------------------------------------------------------------
\* NodeState.__init__: a Port for every index the model reports.
InitPorts(np) ==
    Let(NewPortsDict([ports |-> [t \in PortTypeSet |-> <<>>],
                       heap |-> <<>>,
                       conn |-> [c \in Conns |-> [t \in PortTypeSet |-> None]],
                       err |-> "none", did |-> NoDid],
                      "input", np["input"]),
        LAMBDA s : NewPortsDict(s, "output", np["output"]))

\* Node.__init__ for a model that reports the counts np.
InitNodeState(np) ==
    /\ num_ports = np
    /\ ports = InitPorts(np).ports
    /\ heap = InitPorts(np).heap
    /\ conn_ports = InitPorts(np).conn
    /\ did = NoDid

\* No geometry read has returned yet.
NoRet ==
    [op |-> "none", port_type |-> "none", index |-> 0, t |-> Identity,
     err |-> "none", x |-> Rat(0, 1), y |-> Rat(0, 1)]

\* NodeGeometry.__init__
InitNodeGeometry ==
    /\ font = InitGeometry.font
    /\ width = InitGeometry.width
    /\ height = InitGeometry.height
    /\ entry_height = InitGeometry.entry_height
    /\ spacing = InitGeometry.spacing
    /\ input_port_width = InitGeometry.input_port_width
    /\ output_port_width = InitGeometry.output_port_width
    /\ sync = "new"
    /\ ret = NoRet

Init ==
    /\ \E np \in PortCounts : InitNodeState(np)
    /\ layout = "horizontal"
    /\ caption_visible = TRUE
    /\ validation = "valid"
    /\ widget = FALSE
    /\ InitNodeGeometry
    /\ NothingPainted
    /\ NothingDragged
    /\ NoTree

\* The node model reports another port count (num_ports is dynamic).
SetNumPorts(t, n) ==
    /\ n # num_ports[t]
    /\ n <= MaxCount(t)
    /\ num_ports' = [num_ports EXCEPT ![t] = n]
    /\ did' = NoDid
    /\ UNCHANGED <<ports, heap, conn_ports>>

GetItem(t) == Commit(DoGetItem(Cur, t))
InputPorts == Commit(DoInputPorts(Cur))
OutputPorts == Commit(DoOutputPorts(Cur))
Ports == Commit(DoPorts(Cur))
InputConnections == Commit(DoInputConnections(Cur))
OutputConnections == Commit(DoOutputConnections(Cur))
AllConnections == Commit(DoAllConnections(Cur))
Connections(t, i) == Commit(DoConnections(Cur, t, i))
EraseConnection(t, i, c) ==
    Commit([DoEraseConnection(Cur, t, i, c) EXCEPT !.st.did = NoDid])

\* A connection joins one port of a node at a time; a new Connection object
\* takes the least identity that no Port lists.
Attached(c) ==
    \E p \in DOMAIN heap : \E j \in DOMAIN heap[p].connections :
        heap[p].connections[j] = c

Attach(t, i, c) ==
    /\ ~Attached(c)
    /\ \A c2 \in 1..(c - 1) : Attached(c2)
    /\ Commit([DoAttach(Cur, t, i, c) EXCEPT !.st.did = NoDid])

\* The node state on its own: nothing recalculates or reads the geometry.
GeometryIdle ==
    UNCHANGED <<modelVars, geomVars, sync, ret, paintVars, dragVars, treeVars>>

Next ==
    \/ \E t \in PortTypeSet, n \in 0..MaxOutputs :
           SetNumPorts(t, n) /\ GeometryIdle
    \/ \E t \in PortTypeSet : GetItem(t) /\ GeometryIdle
    \/ InputPorts /\ GeometryIdle
    \/ OutputPorts /\ GeometryIdle
    \/ Ports /\ GeometryIdle
    \/ InputConnections /\ GeometryIdle
    \/ OutputConnections /\ GeometryIdle
    \/ AllConnections /\ GeometryIdle
    \/ \E t \in PortTypeSet : \E i \in 0..MaxCount(t) - 1 :
           Connections(t, i) /\ GeometryIdle
    \/ \E t \in PortTypeSet : \E i \in 0..MaxCount(t) - 1 : \E c \in Conns :
           EraseConnection(t, i, c) /\ GeometryIdle
    \/ \E t \in PortTypeSet : \E i \in 0..MaxCount(t) - 1 : \E c \in Conns :
           Attach(t, i, c) /\ GeometryIdle

Spec == Init /\ [][Next]_vars

----------------------------------------------------------------------------
\* The geometry of a node whose model changes: as in examples/tree.py the
\* output count and the validation state change while the node lives, and
\* so does the visibility of the caption; no connection is attached.
StoreGeometry(g) ==
    /\ font' = g.font
    /\ width' = g.width
    /\ height' = g.height
    /\ entry_height' = g.entry_height
    /\ spacing' = g.spacing
    /\ input_port_width' = g.input_port_width
    /\ output_port_width' = g.output_port_width

RecalculateSize(f) ==
    \E r \in {DoRecalculateSize(Geo, Model, Cur, f)} :
        /\ StoreGeometry(r.g)
        /\ Commit(r)
        /\ sync' = IF r.status = "done" THEN "clean"
                   ELSE IF r.status = "raised" THEN "stale" ELSE sync
        /\ UNCHANGED <<modelVars, ret>>

\* width.setter, height.setter
SetWidth(w) ==
    /\ w # width
    /\ width' = w
    /\ sync' = IF sync = "new" THEN "new" ELSE "resized"
    /\ UNCHANGED <<nsVars, modelVars, font, height, entry_height, spacing,
                   input_port_width, output_port_width, ret>>

SetHeight(h) ==
    /\ h # height
    /\ height' = h
    /\ sync' = IF sync = "new" THEN "new" ELSE "resized"
    /\ UNCHANGED <<nsVars, modelVars, font, width, entry_height, spacing,
                   input_port_width, output_port_width, ret>>

\* The model reports another output count, validation state, caption.
ModelSetNumPorts(t, n) ==
    /\ SetNumPorts(t, n)
    /\ sync' = IF sync = "new" THEN "new" ELSE "stale"
    /\ UNCHANGED <<modelVars, geomVars, ret>>

ModelSetValidation(v) ==
    /\ v # validation
    /\ validation' = v
    /\ sync' = IF sync = "new" THEN "new" ELSE "stale"
    /\ UNCHANGED <<nsVars, layout, caption_visible, widget, geomVars, ret>>

ModelSetCaptionVisible(b) ==
    /\ b # caption_visible
    /\ caption_visible' = b
    /\ sync' = IF sync = "new" THEN "new" ELSE "stale"
    /\ UNCHANGED <<nsVars, layout, validation, widget, geomVars, ret>>

ResizeWidths == {120}
ResizeHeights == {90}

GeomInit ==
    /\ \E np \in PortCounts : InitNodeState(np)
    /\ layout \in Layouts
    /\ caption_visible = TRUE
    /\ validation = "warning"
    /\ widget \in BOOLEAN
    /\ InitNodeGeometry
    /\ NothingPainted
    /\ NothingDragged
    /\ NoTree

\* Nothing is painted or dragged, and the model is no tree model.
RestIdle == UNCHANGED <<paintVars, dragVars, treeVars>>

GeomNext ==
    \/ \E f \in Fonts \cup {NoFont} : RecalculateSize(f) /\ RestIdle
    \/ \E w \in ResizeWidths : SetWidth(w) /\ RestIdle
    \/ \E h \in ResizeHeights : SetHeight(h) /\ RestIdle
    \/ \E n \in 0..MaxOutputs : ModelSetNumPorts("output", n) /\ RestIdle
    \/ \E v \in Validations : ModelSetValidation(v) /\ RestIdle
    \/ \E b \in BOOLEAN : ModelSetCaptionVisible(b) /\ RestIdle

GeomSpec == GeomInit /\ [][GeomNext]_vars

----------------------------------------------------------------------------
\* Port positions as a function of the stored geometry and the model: the
\* stored values are drawn from what the constructor, the setters and
\* recalculate_size can leave in them.
StoredWidths == {InitGeometry.width, 140}
StoredEntryHeights == {InitGeometry.entry_height, FontHeight("default")}
StoredSpacings == {InitGeometry.spacing, 10}

PortScenePosition(t, i, tr) ==
    /\ ret' = [op |-> "port_scene_position", port_type |-> t, index |-> i,
               t |-> tr] @@ DoPortScenePosition(Geo, Model, t, i, tr)
    /\ UNCHANGED <<nsVars, modelVars, geomVars, sync>>

\* NodeGeometry.size
Size ==
    /\ ret' = [NoRet EXCEPT !.op = "size", !.x = Rat(DoSize(Geo).w, 1),
                            !.y = Rat(DoSize(Geo).h, 1)]
    /\ UNCHANGED <<nsVars, modelVars, geomVars, sync>>

PosInit ==
    /\ \E np \in PortCounts : InitNodeState(np)
    /\ layout \in Layouts
    /\ caption_visible \in BOOLEAN
    /\ validation = "valid"
    /\ widget = FALSE
    /\ font = InitGeometry.font
    /\ width \in StoredWidths
    /\ height = InitGeometry.height
    /\ entry_height \in StoredEntryHeights
    /\ spacing \in StoredSpacings
    /\ input_port_width = InitGeometry.input_port_width
    /\ output_port_width = InitGeometry.output_port_width
    /\ sync = "resized"
    /\ ret = NoRet
    /\ NothingPainted
    /\ NothingDragged
    /\ NoTree

PosNext ==
    \/ \E t \in GeomPortTypes : \E i \in 0..MaxOutputs : \E tr \in Transforms :
           PortScenePosition(t, i, tr) /\ RestIdle
    \/ Size /\ RestIdle

PosSpec == PosInit /\ [][PosNext]_vars

----------------------------------------------------------------------------
\* The connection list of the Port with identity p in state st.
ConnsOf(st, p) == st.heap[p].connections
\* The connection lists of the non-empty ports of type t, in index order.
Lists(gathered) == [k \in DOMAIN gathered |-> gathered[k].conns]

\* C1: when the model's count of a port type has grown, reconciliation leaves
\* every Port that existed at an index below the old count in place: the same
\* object under the same key, with the same fields and connection list.
C1_GrowthKeepsPorts ==
    \A t \in PortTypeSet :
        num_ports[t] > Len(ports[t]) =>
            \A r \in {UpdatePorts(Cur)} :
                \A k \in DOMAIN ports[t] :
                    /\ k \in DOMAIN r.ports[t]
                    /\ r.ports[t][k] = ports[t][k]
                    /\ r.heap[ports[t][k].port] = heap[ports[t][k].port]

\* A read accessor has grown the outputs around a port that holds connections.
C1_Witness ==
    /\ did["output"] = "grow"
    /\ Len(ports["output"]) >= 2
    /\ Len(ConnsOf(Cur, ports["output"][1].port)) = 2

\* C2: when the model's count of a port type has shrunk to a count that the
\* non-empty ports fit in, reconciliation keeps the connection lists of the
\* non-empty ports as they are and in their order, every listed connection's
\* endpoint of that type is the Port listing it, and, the shrink having run
\* (it does not when the reconciliation fails for the input type first), the
\* k-th list is on the k-th of the newly built ports.
C2_ShrinkKeepsConnections ==
    \A t \in PortTypeSet : \A old \in {GatherConnections(Cur, t)} :
        (num_ports[t] < Len(ports[t]) /\ Len(old) <= num_ports[t]) =>
            \A r \in {UpdatePorts(Cur)} : \A new \in {GatherConnections(r, t)} :
                /\ Lists(new) = Lists(old)
                /\ \A k \in DOMAIN r.ports[t] :
                       \A j \in DOMAIN ConnsOf(r, r.ports[t][k].port) :
                           r.conn[ConnsOf(r, r.ports[t][k].port)[j]][t]
                               = r.ports[t][k].port
                /\ r.did[t] = "shrink" =>
                       /\ Len(r.ports[t]) = num_ports[t]
                       /\ \A k \in DOMAIN r.ports[t] :
                              r.ports[t][k].port > Len(heap)
                       /\ \A k \in DOMAIN new : new[k].key = k - 1
                /\ r.did[t] # "shrink" =>
                       /\ t = "output"
                       /\ r.did["input"] = "raise"
                       /\ r.ports[t] = ports[t]

\* The model has shrunk the outputs from 3 to 2 while ports 1 and 2 hold
\* connections, and reconciliation moves the two lists to new ports 0 and 1.
C2_Witness ==
    \E old \in {GatherConnections(Cur, "output")} :
        /\ num_ports["output"] = 2
        /\ Len(ports["output"]) = 3
        /\ Len(old) = 2
        /\ old[1].key = 1
        /\ \E r \in {UpdatePorts(Cur)} :
               /\ r.did["output"] = "shrink"
               /\ GatherConnections(r, "output")[1].key = 0
               /\ GatherConnections(r, "output")[2].key = 1

\* C3: a reconciliation that fails with the re-index error has changed
\* nothing: both port collections, every Port object and every connection's
\* endpoints are what they were before the call.
C3_FailedShrinkChangesNothing ==
    \A r \in {UpdatePorts(Cur)} :
        r.err = "reindex" =>
            /\ r.ports = ports
            /\ r.heap = heap
            /\ r.conn = conn_ports

\* Every accessor of NodeState with the port types it reads.
AccessorRuns ==
    {[r |-> DoGetItem(Cur, t), ts |-> {t}] : t \in PortTypeSet}
    \cup {[r |-> DoInputPorts(Cur), ts |-> {"input"}],
          [r |-> DoOutputPorts(Cur), ts |-> {"output"}],
          [r |-> DoPorts(Cur), ts |-> PortTypeSet],
          [r |-> DoInputConnections(Cur), ts |-> {"input"}],
          [r |-> DoOutputConnections(Cur), ts |-> {"output"}],
          [r |-> DoAllConnections(Cur), ts |-> PortTypeSet]}
    \cup {[r |-> DoConnections(Cur, t, i), ts |-> {t}] :
              t \in PortTypeSet, i \in 0..MaxOutputs}
    \cup {[r |-> DoEraseConnection(Cur, t, i, c), ts |-> {t}] :
              t \in PortTypeSet, i \in 0..MaxOutputs, c \in Conns}

\* C4: an accessor of NodeState that returns normally has read, for each port
\* type it reads, as many ports as the model reports, and leaves as many.
C4_AccessorsSeeModelCount ==
    \A x \in AccessorRuns :
        x.r.st.err = "none" =>
            \A t \in x.ts :
                /\ x.r.seen[t] = num_ports[t]
                /\ Len(x.r.st.ports[t]) = num_ports[t]

\* A read accessor returned normally after the model changed both counts.
C4_Witness ==
    /\ did["input"] = "shrink"
    /\ did["output"] = "grow"
    /\ \A t \in PortTypeSet : Len(ports[t]) = num_ports[t]

\* C5: a reconciliation that follows a reconciliation, the model unchanged,
\* changes nothing: the same Port objects under the same keys with the same
\* connection lists, and the same endpoints.
C5_ReconcileIdempotent ==
    \A r1 \in {UpdatePorts(Cur)} :
        \A r2 \in {UpdatePorts([r1 EXCEPT !.err = "none"])} :
            /\ r2.ports = r1.ports
            /\ r2.heap = r1.heap
            /\ r2.conn = r1.conn
            /\ r2.err = r1.err

\* A reconciliation has just grown one port type and shrunk the other, with
\* connections moved; the next one runs with no model change in between.
C5_Witness ==
    /\ did["input"] = "grow"
    /\ did["output"] = "shrink"
    /\ \E k \in DOMAIN ports["output"] :
           ConnsOf(Cur, ports["output"][k].port) # <<>>

\* C6: the keys of each port-type mapping are 0..count-1 and the Port under
\* key i has index i and that port type.
C6_ContiguousIndices ==
    \A t \in PortTypeSet :
        /\ Keys(ports[t]) = 0..(Len(ports[t]) - 1)
        /\ \A k \in DOMAIN ports[t] :
               /\ heap[ports[t][k].port].index = ports[t][k].key
               /\ heap[ports[t][k].port].port_type = t

\* The ports were rebuilt by a shrink that left several, and grown.
C6_Witness ==
    /\ did["output"] = "shrink"
    /\ Len(ports["output"]) >= 2
    /\ did["input"] = "grow"

\* C7: a connection in the list of a Port of the NodeState has that very Port
\* as its endpoint of the port's type.
C7_ListedEndpointsPointBack ==
    \A t \in PortTypeSet : \A k \in DOMAIN ports[t] :
        \A j \in DOMAIN ConnsOf(Cur, ports[t][k].port) :
            conn_ports[ConnsOf(Cur, ports[t][k].port)[j]][t] = ports[t][k].port

\* A shrink has moved a list of two connections.
C7_Witness ==
    /\ did["output"] = "shrink"
    /\ \E k \in DOMAIN ports["output"] :
           Len(ConnsOf(Cur, ports["output"][k].port)) = 2

----------------------------------------------------------------------------
\* What a geometry constructed now, with the font and the spacing of this
\* one, stores when it recalculates its size from the current model.
Recomputed ==
    DoRecalculateSize([InitGeometry EXCEPT !.font = font, !.spacing = spacing],
                      Model, Cur, NoFont).g

\* Every geometry read returns what it would return on the recomputed size.
ReadsCurrent ==
    \A e \in {Recomputed} :
        /\ DoWidth(Geo) = DoWidth(e)
        /\ DoHeight(Geo) = DoHeight(e)
        /\ DoSize(Geo) = DoSize(e)
        /\ DoBoundingRect(Geo) = DoBoundingRect(e)
        /\ \A t \in PortTypeSet : \A i \in 0..MaxOutputs :
               DoPortScenePosition(Geo, Model, t, i, Identity)
                   = DoPortScenePosition(e, Model, t, i, Identity)

C9_VerticalPortPosition ==
    (/\ ret.op = "port_scene_position"
     /\ layout = "vertical"
     /\ ret.t = Identity
     /\ ret.port_type \in PortTypeSet
     /\ ret.index < num_ports[ret.port_type])
    => /\ ret.err = "none"
       /\ ret.x.d > 0
       /\ ret.x.n * (num_ports[ret.port_type] + 1)
              = width * (ret.index + 1) * ret.x.d
       /\ ret.port_type = "input" => RatEq(ret.y, Rat(0 - PointDiameter, 1))
       /\ ret.port_type = "output"
              => RatEq(ret.y, Rat(height + PointDiameter, 1))
       /\ (width = 100 /\ num_ports["input"] = 1 /\ num_ports["output"] = 2)
              => RatEq(ret.x, IF ret.port_type = "input" THEN Rat(50, 1)
                              ELSE IF ret.index = 0 THEN Rat(100, 3)
                              ELSE Rat(200, 3))

\* The second of two outputs of a node 100 wide was asked for, at 200/3.
C9_Witness ==
    /\ ret.op = "port_scene_position"
    /\ layout = "vertical"
    /\ ret.t = Identity
    /\ width = 100
    /\ num_ports["input"] = 1
    /\ num_ports["output"] = 2
    /\ ret.port_type = "output"
    /\ ret.index = 1
    /\ ret.err = "none"
    /\ RatEq(ret.x, Rat(200, 3))

\* The position of port i under the identity transform, in this state.
PositionAt(t, i) == DoPortScenePosition(Geo, Model, t, i, Identity)

\* C10: under horizontal layout and the identity transform y grows strictly
\* with the index, by the step entry_height + spacing and from below the
\* caption, and is the same for an input and an output of one index; x is
\* -pointDiameter for an input and width + pointDiameter for an output; any
\* other port type raises.
C10_HorizontalPortPosition ==
    layout = "horizontal" =>
        /\ \A i \in 0..MaxOutputs :
               \A a \in {PositionAt("input", i)} :
               \A b \in {PositionAt("output", i)} :
               \A c \in {PositionAt("input", i + 1)} :
                   /\ a.err = "none" /\ b.err = "none"
                   /\ RatEq(a.y, b.y)
                   /\ RatLess(a.y, c.y)
                   /\ RatEq(c.y, RatPlus(a.y, entry_height + spacing))
                   /\ RatEq(a.x, Rat(0 - PointDiameter, 1))
                   /\ RatEq(b.x, Rat(width + PointDiameter, 1))
                   /\ PositionAt("none", i).err # "none"
        /\ RatLess(Rat(CaptionHeight(Geo, Model), 1), PositionAt("input", 0).y)
        /\ (ret.op = "port_scene_position" /\ ret.t = Identity)
               => /\ ret.err = PositionAt(ret.port_type, ret.index).err
                  /\ RatEq(ret.x, PositionAt(ret.port_type, ret.index).x)
                  /\ RatEq(ret.y, PositionAt(ret.port_type, ret.index).y)
                  /\ ret.port_type = "none" => ret.err = "ValueError"

\* The third output of a node with a visible caption was asked for, two
\* steps and a half below the caption.
C10_Witness ==
    /\ ret.op = "port_scene_position"
    /\ layout = "horizontal"
    /\ ret.t = Identity
    /\ caption_visible
    /\ ret.port_type = "output"
    /\ ret.index = 2
    /\ ret.err = "none"
    /\ RatEq(ret.y, Rat(2 * CaptionHeight(Geo, Model)
                            + 5 * (entry_height + spacing), 2))
    /\ RatEq(ret.x, Rat(width + PointDiameter, 1))

----------------------------------------------------------------------------
\* The size of a node without embedded widget and caption, from the stored
\* entry height, spacing and port widths and the model's port counts.
BareHeight ==
    IF layout = "horizontal"
    THEN (entry_height + spacing)
             * Max(num_ports["input"], num_ports["output"])
    ELSE (entry_height + spacing) * 2
BareWidth ==
    IF layout = "horizontal"
    THEN input_port_width + output_port_width + 2 * spacing
    ELSE Max(input_port_width, output_port_width)
             * Max(num_ports["input"], num_ports["output"]) + 2 * spacing

\* C11: recalculate_size with no embedded widget and an invisible caption
\* stores, for a valid model, height = (entry_height + spacing) * max(num_in,
\* num_out) and width = input_port_width + output_port_width + 2 * spacing
\* under horizontal layout, height = (entry_height + spacing) * 2 and width =
\* max(input_port_width, output_port_width) * max(num_in, num_out)
\* + 2 * spacing under vertical layout; for a model that is not valid the
\* height is larger by validation_height + spacing and the width is at least
\* validation_width.
C11_RecalculatedSize ==
    (sync = "clean" /\ ~widget /\ ~caption_visible) =>
        IF validation = "valid"
        THEN height = BareHeight /\ width = BareWidth
        ELSE /\ height = BareHeight + ValidationHeight(Geo) + spacing
             /\ width >= ValidationWidth(Geo)
             /\ width >= BareWidth

\* recalculate_size has stored the size of a horizontal node with one input
\* and three outputs, valid, without widget and caption.
C11_Witness ==
    /\ sync = "clean"
    /\ ~widget
    /\ ~caption_visible
    /\ validation = "valid"
    /\ layout = "horizontal"
    /\ num_ports["input"] = 1
    /\ num_ports["output"] = 3
    /\ height = 3 * (entry_height + spacing)
    /\ width = input_port_width + output_port_width + 2 * spacing
    /\ input_port_width # InitGeometry.input_port_width

----------------------------------------------------------------------------
\* Hit tests on a node whose model changes its port counts between them.
\* The points lie on and between the places where ports are drawn.
HitPoints ==
    {[x |-> -8, y |-> 46], [x |-> 40, y |-> -8], [x |-> 108, y |-> 46],
     [x |-> 40, y |-> 158]}

\* The index of the Port a hit test returned, -1 for None.
HitIndex(st, pid) == IF pid = None THEN -1 ELSE st.heap[pid].index

CheckHitScenePoint(t, pt, tr) ==
    \E r \in {DoCheckHitScenePoint(Geo, Model, Cur, t, pt, tr)} :
        /\ Commit(r)
        /\ ret' = [op |-> "check_hit_scene_point", port_type |-> t,
                   index |-> HitIndex(r.st, r.port), t |-> tr,
                   err |-> r.st.err, x |-> Rat(pt.x, 1), y |-> Rat(pt.y, 1)]
        /\ UNCHANGED <<modelVars, geomVars, sync>>

\* The model reports another port count; what was returned before is of the
\* old model.
HitSetNumPorts(t, n) ==
    /\ SetNumPorts(t, n)
    /\ ret' = NoRet
    /\ UNCHANGED <<modelVars, geomVars, sync>>

HitInit ==
    /\ \E np \in PortCounts : InitNodeState(np)
    /\ layout \in Layouts
    /\ caption_visible = TRUE
    /\ validation = "valid"
    /\ widget = FALSE
    /\ font = InitGeometry.font
    /\ width \in StoredWidths
    /\ height = InitGeometry.height
    /\ entry_height = InitGeometry.entry_height
    /\ spacing \in StoredSpacings
    /\ input_port_width = InitGeometry.input_port_width
    /\ output_port_width = InitGeometry.output_port_width
    /\ sync = "resized"
    /\ ret = NoRet
    /\ NothingPainted
    /\ NothingDragged
    /\ NoTree

HitNext ==
    \/ \E t \in PortTypeSet, n \in 0..MaxOutputs :
           HitSetNumPorts(t, n) /\ RestIdle
    \/ \E t \in GeomPortTypes : \E pt \in HitPoints : \E tr \in Transforms :
           CheckHitScenePoint(t, pt, tr) /\ RestIdle

HitSpec == HitInit /\ [][HitNext]_vars

\* The indices of the ports of type t, as the model counts them, whose scene
\* position under tr is in range of the point pt.
InRange(t, pt, tr) ==
    {i \in 0..(num_ports[t] - 1) :
        Nearby(DoPortScenePosition(Geo, Model, t, i, tr), pt)}

\* C12: check_hit_scene_point returns the port of the lowest index among the
\* ports of the type whose mapped scene position is less than
\* 2 * point diameter from the point, None when there is none, and None for
\* the port type none, for which it looks at no port.
C12_CheckHitLowestIndex ==
    /\ (ret.op = "check_hit_scene_point" /\ ret.err = "none") =>
           IF ret.port_type = "none" THEN ret.index = -1
           ELSE \A near \in {InRange(ret.port_type,
                                     [x |-> ret.x.n, y |-> ret.y.n], ret.t)} :
                    IF near = {} THEN ret.index = -1
                    ELSE ret.index \in near
                         /\ \A i \in near : ret.index <= i
    /\ \A pt \in HitPoints :
           DoCheckHitScenePoint(Geo, Model, Cur, "none", pt, Identity).st = Cur

\* A hit test that first re-indexed the outputs found two of them in range
\* and returned the one of index 0.
C12_Witness ==
    /\ ret.op = "check_hit_scene_point"
    /\ ret.err = "none"
    /\ ret.port_type = "output"
    /\ did["output"] \in {"grow", "shrink"}
    /\ ret.index = 0
    /\ Cardinality(InRange("output", [x |-> ret.x.n, y |-> ret.y.n], ret.t)) >= 2

----------------------------------------------------------------------------
\* ConnectionPainter.  The QPainter is the list of what was drawn on it; a
\* QColor is its name in the style and whether darker(200) was taken of it.
Segments == 60
Color(name) == [name |-> name, darker |-> FALSE]
Darker(c) == [c EXCEPT !.darker = TRUE]
\* style.get_normal_color(), style.get_normal_color(data_type.id)
NormalColor == Color("normal")
TypeColor(id) == Color(id)

\* One call of a QPainter draw method, with the pen set before it.
Draw(step, call, pen, color, at, segment) ==
    [step |-> step, call |-> call, pen |-> pen, color |-> color, at |-> at,
     segment |-> segment]

\* debug_drawing
DebugDrawing(cv, cn) ==
    cv \o <<Draw("debug", "drawLine", "solid", Color("red"), "source-c1", -1),
            Draw("debug", "drawLine", "solid", Color("red"), "c1-c2", -1),
            Draw("debug", "drawLine", "solid", Color("red"), "c2-sink", -1),
            Draw("debug", "drawEllipse", "solid", Color("red"), "c1", -1),
            Draw("debug", "drawEllipse", "solid", Color("red"), "c2", -1),
            Draw("debug", "drawPath", "solid", Color("red"), "path", -1),
            Draw("debug", "drawRect", "solid", Color("yellow"),
                 "bounding_rect", -1)>>

\* A sketch line that is drawn for every connection.
DrawSketchLineAlways(cv, cn) ==
    Append(cv, Draw("sketch", "drawPath", "dash", Color("construction"),
                    "path", -1))

\* draw_sketch_line
DrawSketchLine(cv, cn) ==
    IF ~cn.requires_port THEN cv
    ELSE Append(cv, Draw("sketch", "drawPath", "dash", Color("construction"),
                         "path", -1))

\* draw_hovered_or_selected
DrawHoveredOrSelected(cv, cn) ==
    IF cn.hovered \/ cn.selected
    THEN Append(cv, Draw("halo", "drawPath", "solid",
                         Color(IF cn.selected THEN "selected_halo"
                               ELSE "hovered"), "path", -1))
    ELSE cv

\* Segments that keep the first color to the end.
GradientSegmentsOneColor(color_out, color_in, selected) ==
    [j \in 1..Segments |->
        Draw("normal", "drawLine", "solid",
             IF selected THEN Darker(color_out) ELSE color_out,
             "segment", j - 1)]

\* The loop of draw_normal_line over the segments of a gradient line: the
\* pen changes color at i == segments / 2.
GradientSegments(color_out, color_in, selected) ==
    [j \in 1..Segments |->
        Draw("normal", "drawLine", "solid",
             IF 2 * (j - 1) >= Segments
             THEN (IF selected THEN Darker(color_in) ELSE color_in)
             ELSE (IF selected THEN Darker(color_out) ELSE color_out),
             "segment", j - 1)]

\* draw_normal_line
DrawNormalLine(cv, cn) ==
    IF cn.requires_port THEN cv
    ELSE LET data_defined == cn.use_data_defined_colors
             gradient_color ==
                 data_defined /\ cn.data_type_out # cn.data_type_in
             normal_color_out ==
                 IF data_defined THEN TypeColor(cn.data_type_out)
                 ELSE NormalColor
             normal_color_in ==
                 IF data_defined THEN TypeColor(cn.data_type_in)
                 ELSE NormalColor
             selected_color ==
                 IF data_defined THEN Darker(normal_color_out)
                 ELSE Color("selected")
         IN  IF gradient_color
             THEN cv \o GradientSegments(normal_color_out, normal_color_in,
                                         cn.selected)
                     \o <<Draw("normal", "drawPixmap", "solid",
                               Color("convert.png"), "midpoint", -1)>>
             ELSE Append(cv, Draw("normal", "drawPath", "solid",
                                  IF cn.selected THEN selected_color
                                  ELSE normal_color_out, "path", -1))

\* The end points, drawn before the lines.
EndPointsFirst(cv, cn) ==
    <<Draw("dot", "drawEllipse", "solid", Color("construction"), "source", -1),
      Draw("dot", "drawEllipse", "solid", Color("construction"), "sink", -1)>>
        \o cv

\* ConnectionPainter.paint from "draw end points" on
EndPoints(cv, cn) ==
    cv \o <<Draw("dot", "drawEllipse", "solid", Color("construction"),
                 "source", -1),
            Draw("dot", "drawEllipse", "solid", Color("construction"),
                 "sink", -1)>>

\* ConnectionPainter.paint
DoPaint(cn) ==
    Let(DrawHoveredOrSelected(<<>>, cn), LAMBDA c1 :
    Let(DrawSketchLine(c1, cn), LAMBDA c2 :
    Let(DrawNormalLine(c2, cn), LAMBDA c3 :
    Let(IF cn.use_debug_drawing THEN DebugDrawing(c3, cn) ELSE c3, LAMBDA c4 :
        EndPoints(c4, cn)))))

Paint ==
    /\ canvas' = DoPaint(connection)
    /\ UNCHANGED <<connection, nodeVars, dragVars, treeVars>>

\* The connections and styles that are painted.
PaintInit ==
    /\ InitNodeState([t \in PortTypeSet |-> 1])
    /\ layout = "horizontal"
    /\ caption_visible = TRUE
    /\ validation = "valid"
    /\ widget = FALSE
    /\ InitNodeGeometry
    /\ connection \in [requires_port : BOOLEAN, hovered : BOOLEAN,
                        selected : BOOLEAN, data_type_out : DataTypes,
                        data_type_in : DataTypes,
                        use_data_defined_colors : BOOLEAN,
                        use_debug_drawing : BOOLEAN]
    /\ canvas = <<>>
    /\ NothingDragged
    /\ NoTree

PaintNext == Paint

PaintSpec == PaintInit /\ [][PaintNext]_vars

\* The draw calls of one step of the painting, in the order drawn.
StepsOf(kind) == SelectSeq(canvas, LAMBDA d : d.step = kind)
\* The place of a step in the order of ConnectionPainter.paint.
Rank(kind) ==
    CASE kind = "halo" -> 1
      [] kind = "sketch" -> 2
      [] kind = "normal" -> 3
      [] kind = "debug" -> 4
      [] kind = "dot" -> 5

\* C13: every paint draws in the order halo, sketch line, normal line,
\* debug overlay, end points; the halo only when the connection is hovered or
\* selected, the debug overlay only when the debug flag is on; the two end
\* points, at the source and at the sink, are drawn by every paint and
\* nothing after them.
C13_PaintOrder ==
    canvas # <<>> =>
        /\ \A j \in DOMAIN canvas : \A k \in DOMAIN canvas :
               j < k => Rank(canvas[j].step) <= Rank(canvas[k].step)
        /\ (StepsOf("halo") # <<>>)
               <=> (connection.hovered \/ connection.selected)
        /\ (StepsOf("debug") # <<>>) <=> connection.use_debug_drawing
        /\ Len(StepsOf("dot")) = 2
        /\ Len(canvas) >= 3
        /\ canvas[Len(canvas) - 1].step = "dot"
        /\ canvas[Len(canvas) - 1].at = "source"
        /\ canvas[Len(canvas)].step = "dot"
        /\ canvas[Len(canvas)].at = "sink"

\* A hovered, attached connection was painted with the debug flag on: halo,
\* normal line, debug overlay and end points.
C13_Witness ==
    /\ canvas # <<>>
    /\ connection.hovered
    /\ connection.use_debug_drawing
    /\ ~connection.requires_port
    /\ canvas[1].step = "halo"
    /\ canvas[2].step = "normal"
    /\ StepsOf("debug") # <<>>
    /\ canvas[Len(canvas)].step = "dot"

\* C14: every paint draws exactly one of the dashed sketch line and the
\* normal line: the sketch line iff the connection requires a port (it is
\* being dragged), the normal line iff it does not.
C14_SketchOrNormal ==
    canvas # <<>> =>
        /\ (StepsOf("sketch") # <<>>) <=> connection.requires_port
        /\ (StepsOf("normal") # <<>>) <=> ~connection.requires_port
        /\ (StepsOf("sketch") # <<>>) # (StepsOf("normal") # <<>>)
        /\ Len(StepsOf("sketch")) <= 1
        /\ \A j \in DOMAIN canvas :
               (canvas[j].pen = "dash") <=> (canvas[j].step = "sketch")

\* A connection that is being dragged was painted with the dashed line and
\* without the normal line.
C14_Witness ==
    /\ canvas # <<>>
    /\ connection.requires_port
    /\ Len(StepsOf("sketch")) = 1
    /\ StepsOf("sketch")[1].pen = "dash"
    /\ StepsOf("normal") = <<>>

\* The color a normal line has for a data type: that of the style when the
\* style does not color by data type.
LineColor(id) ==
    IF connection.use_data_defined_colors THEN TypeColor(id) ELSE NormalColor
\* The normal line is drawn in two halves, of the colors first and second.
TwoHalves(first, second) ==
    \A line \in {SelectSeq(StepsOf("normal"),
                           LAMBDA d : d.call = "drawLine")} :
        /\ Len(line) = Segments
        /\ \A j \in DOMAIN line :
               /\ line[j].segment = j - 1
               /\ line[j].color = IF 2 * (j - 1) < Segments THEN first
                                  ELSE second
\* The normal line is drawn as one path of one color.
OneColor(color) ==
    /\ Len(StepsOf("normal")) = 1
    /\ StepsOf("normal")[1].call = "drawPath"
    /\ StepsOf("normal")[1].color = color

\* C15 as stated: the normal line of an attached connection is drawn in two
\* halves, the first of the color of the output data type and the second of
\* the color of the input data type, whenever the two data types differ, and
\* in one color otherwise; the color is the darker variant when the
\* connection is selected.
C15_HalvesWheneverTypesDiffer ==
    (canvas # <<>> /\ ~connection.requires_port) =>
        IF connection.data_type_out # connection.data_type_in
        THEN IF connection.selected
             THEN TwoHalves(Darker(LineColor(connection.data_type_out)),
                            Darker(LineColor(connection.data_type_in)))
             ELSE TwoHalves(LineColor(connection.data_type_out),
                            LineColor(connection.data_type_in))
        ELSE IF connection.selected
             THEN OneColor(Darker(LineColor(connection.data_type_out)))
             ELSE OneColor(LineColor(connection.data_type_out))

\* C15 as amended: the two halves are drawn when the style colors by data
\* type and the two data types differ, one color otherwise; when the
\* connection is selected the color is the darker variant of the data type's
\* color if the style colors by data type, and the style's selected color
\* if it does not.
C15_HalvesWhenDataDefinedColorsDiffer ==
    (canvas # <<>> /\ ~connection.requires_port) =>
        IF /\ connection.use_data_defined_colors
           /\ connection.data_type_out # connection.data_type_in
        THEN IF connection.selected
             THEN TwoHalves(Darker(TypeColor(connection.data_type_out)),
                            Darker(TypeColor(connection.data_type_in)))
             ELSE TwoHalves(TypeColor(connection.data_type_out),
                            TypeColor(connection.data_type_in))
        ELSE IF ~connection.selected
             THEN OneColor(LineColor(connection.data_type_out))
             ELSE IF connection.use_data_defined_colors
             THEN OneColor(Darker(TypeColor(connection.data_type_out)))
             ELSE OneColor(Color("selected"))

\* A selected connection from data type A to data type B was painted with
\* colors by data type: the pen changes to the darker B at segment 30.
C15_Witness ==
    /\ canvas # <<>>
    /\ ~connection.requires_port
    /\ connection.use_data_defined_colors
    /\ connection.selected
    /\ connection.data_type_out = "A"
    /\ connection.data_type_in = "B"
    /\ \E j \in DOMAIN canvas :
           /\ canvas[j].segment = 29
           /\ canvas[j].color = Darker(TypeColor("A"))
           /\ canvas[j + 1].segment = 30
           /\ canvas[j + 1].color = Darker(TypeColor("B"))

----------------------------------------------------------------------------
\* The reaction state of the NodeStates, and the dragging of a connection
\* that sets and clears it.  The drag itself (the interaction that starts,
\* cancels and drops a connection) is described by the specification only.
React ==
    [reaction |-> reaction, reacting_port_type |-> reacting_port_type,
     reacting_data_type |-> reacting_data_type]

\* A set_reaction that, when the reaction ends, keeps the port type and the
\* data type stored before.
DoSetReactionKeepsTypes(rs, n, r, t, d) ==
    IF r = "not_reacting" THEN [rs EXCEPT !.reaction[n] = r]
    ELSE [rs EXCEPT !.reaction[n] = r,
                    !.reacting_port_type[n] = t,
                    !.reacting_data_type[n] = d]

\* NodeState.set_reaction(reaction, reacting_port_type, reacting_data_type)
DoSetReaction(rs, n, r, t, d) ==
    [rs EXCEPT !.reaction[n] = r,
               !.reacting_port_type[n] = t,
               !.reacting_data_type[n] = d]

\* NodeState.is_reacting
IsReacting(rs, n) == rs.reaction[n] = "reacting"

\* set_reaction(not_reacting), the other arguments at their defaults, on
\* both endpoint nodes.
ResetReactions(rs) ==
    DoSetReaction(DoSetReaction(rs, "origin", "not_reacting", "none", NoData),
                  "target", "not_reacting", "none", NoData)

\* The declared data type of the port i of type t of the target's model,
\* and Port.can_connect.
PortDataType(t, i) == IF i % 2 = 0 THEN "A" ELSE "B"
CanConnect(t, i, d) == PortDataType(t, i) = d

\* A drop that does not look at the capacity of the port.
DoDropAnyCapacity(st, rs, dg, t, i) ==
    Let(DoGetItem(st, t).st, LAMBDA s :
        IF s.err # "none" \/ ~HasKey(s.ports[t], i)
        THEN [st |-> s, rs |-> ResetReactions(rs), accepted |-> FALSE]
        ELSE IF /\ t # dg.port_type
                /\ CanConnect(t, i, rs.reacting_data_type["origin"])
        THEN [st |-> [s EXCEPT
                        !.heap[Lookup(s.ports[t], i)].connections =
                            Append(@, dg.connection),
                        !.conn[dg.connection] =
                            [tt \in PortTypeSet |->
                                IF tt = t THEN Lookup(s.ports[t], i)
                                ELSE None]],
              rs |-> ResetReactions(rs), accepted |-> TRUE]
        ELSE [st |-> s, rs |-> ResetReactions(rs), accepted |-> FALSE])

\* The dragged connection is dropped on the port i of type t of the target:
\* accepted iff the port is of the type opposite to the dragging port type,
\* can_connect(reacting_data_type) holds and the port has capacity left; then
\* the connection is added to the port and its endpoint set to the port.
\* The reaction of both nodes is reset whether the drop is accepted or not.
DoDrop(st, rs, dg, t, i) ==
    Let(DoGetItem(st, t).st, LAMBDA s :
        IF s.err # "none" \/ ~HasKey(s.ports[t], i)
        THEN [st |-> s, rs |-> ResetReactions(rs), accepted |-> FALSE]
        ELSE IF /\ t # dg.port_type
                /\ CanConnect(t, i, rs.reacting_data_type["origin"])
                /\ Len(s.heap[Lookup(s.ports[t], i)].connections)
                       < Capacity(t)
        THEN [st |-> DoAttach(s, t, i, dg.connection).st,
              rs |-> ResetReactions(rs), accepted |-> TRUE]
        ELSE [st |-> s, rs |-> ResetReactions(rs), accepted |-> FALSE])

StoreReactions(rs) ==
    /\ reaction' = rs.reaction
    /\ reacting_port_type' = rs.reacting_port_type
    /\ reacting_data_type' = rs.reacting_data_type

DragElseIdle == UNCHANGED <<modelVars, geomVars, sync, ret, paintVars, treeVars>>

\* The user starts to drag a new connection from a port of type t and data
\* type d of the origin; the origin reacts.
StartDrag(t, d, c) ==
    /\ drag.state = "idle"
    /\ ~Attached(c)
    /\ \A c2 \in 1..(c - 1) : Attached(c2)
    /\ drag' = [state |-> "dragging", port_type |-> t, data_type |-> d,
                connection |-> c]
    /\ StoreReactions(DoSetReaction(React, "origin", "reacting", t, d))
    /\ drop' = NoDrop
    /\ UNCHANGED nsVars
    /\ DragElseIdle

\* The dragged connection is moved over the target, which reacts.
HoverTarget ==
    /\ drag.state = "dragging"
    /\ StoreReactions(DoSetReaction(React, "target", "reacting",
                                     drag.port_type, drag.data_type))
    /\ UNCHANGED <<nsVars, drag, drop>>
    /\ DragElseIdle

\* What a drop or a cancellation found: which nodes were reacting, and the
\* connections of the port dropped on.
Found(op, t, i, accepted, before) ==
    [op |-> op, port_type |-> t, index |-> i, accepted |-> accepted,
     was_reacting |-> {n \in Nodes : IsReacting(React, n)},
     before |-> before]

\* The drag is cancelled: released over no port, or aborted.
CancelDrag ==
    /\ drag.state = "dragging"
    /\ StoreReactions(ResetReactions(React))
    /\ drag' = NoDrag
    /\ drop' = Found("cancel", "none", 0, FALSE, 0)
    /\ UNCHANGED nsVars
    /\ DragElseIdle

Drop(t, i) ==
    /\ drag.state = "dragging"
    /\ i < num_ports[t]
    /\ \E r \in {DoDrop(Cur, React, drag, t, i)} :
           /\ Commit([st |-> [r.st EXCEPT !.did = NoDid]])
           /\ StoreReactions(r.rs)
           /\ drop' = Found("drop", t, i, r.accepted,
                            Len(ConnsOf(Cur, Lookup(ports[t], i))))
    /\ drag' = NoDrag
    /\ DragElseIdle

DragInit ==
    /\ \E np \in PortCounts : InitNodeState(np)
    /\ layout = "horizontal"
    /\ caption_visible = TRUE
    /\ validation = "valid"
    /\ widget = FALSE
    /\ InitNodeGeometry
    /\ NothingPainted
    /\ NothingDragged
    /\ NoTree

DragNext ==
    \/ \E t \in PortTypeSet : \E d \in DataTypes : \E c \in Conns :
           StartDrag(t, d, c)
    \/ HoverTarget
    \/ CancelDrag
    \/ \E t \in PortTypeSet : \E i \in 0..MaxCount(t) - 1 : Drop(t, i)

DragSpec == DragInit /\ [][DragNext]_vars

Cleared(rs, n) ==
    /\ ~IsReacting(rs, n)
    /\ rs.reacting_port_type[n] = "none"
    /\ rs.reacting_data_type[n] = NoData

\* C16: set_reaction(not_reacting) leaves is_reacting false, the reacting
\* port type 'none' and the reacting data type absent, whatever a previous
\* set_reaction(reacting, port_type, data_type) stored; and once a drag is
\* cancelled or completed no node shows a reaction, a reacting port type or
\* a reacting data type.
C16_ReactionCleared ==
    /\ \A n \in Nodes :
           Cleared(DoSetReaction(React, n, "not_reacting", "none", NoData), n)
    /\ drag.state = "idle" => \A n \in Nodes : Cleared(React, n)

\* A drag during which both nodes reacted has been cancelled or completed.
C16_Witness ==
    /\ drop.op \in {"cancel", "drop"}
    /\ drop.was_reacting = Nodes
    /\ drag.state = "idle"

\* The three conditions of acceptance, on the state the drop finds.
Opposite(t) == t # drag.port_type
Compatible(t, i) == CanConnect(t, i, reacting_data_type["origin"])
Room(t, i) == Len(ConnsOf(Cur, Lookup(ports[t], i))) < Capacity(t)

\* C17: a drop on a port of the target is accepted iff the port's type is
\* opposite the dragging port type, can_connect(reacting_data_type) holds
\* and the port has capacity left; an accepted drop appends the connection
\* to the port, points the connection's endpoint at it and resets the
\* reaction of both nodes; a rejected drop leaves the connections of the
\* port as they were.
C17_DropAcceptedIff ==
    /\ drag.state = "dragging" =>
          \A t \in PortTypeSet : \A i \in 0..(num_ports[t] - 1) :
             HasKey(ports[t], i) =>
             \A r \in {DoDrop(Cur, React, drag, t, i)} :
                /\ r.accepted <=>
                      (Opposite(t) /\ Compatible(t, i) /\ Room(t, i))
                /\ r.st.err = "none"
                /\ r.accepted =>
                      /\ ConnsOf(r.st, Lookup(r.st.ports[t], i)) =
                            Append(ConnsOf(Cur, Lookup(ports[t], i)),
                                   drag.connection)
                      /\ r.st.conn[drag.connection][t] =
                            Lookup(r.st.ports[t], i)
                      /\ \A n \in Nodes : Cleared(r.rs, n)
                /\ ~r.accepted =>
                      ConnsOf(r.st, Lookup(r.st.ports[t], i)) =
                         ConnsOf(Cur, Lookup(ports[t], i))
    /\ drop.op = "drop" =>
          /\ Len(ConnsOf(Cur, Lookup(ports[drop.port_type], drop.index))) =
                drop.before + (IF drop.accepted THEN 1 ELSE 0)
          /\ drop.accepted => \A n \in Nodes : Cleared(React, n)

\* A drop has been accepted on a port that already held a connection, and
\* a port without capacity left exists to reject the next drop.
C17_Witness ==
    /\ drop.op = "drop"
    /\ drop.accepted
    /\ \E t \in PortTypeSet :
           /\ HasKey(ports[t], 0)
           /\ Len(ConnsOf(Cur, Lookup(ports[t], 0))) >= Capacity(t)

----------------------------------------------------------------------------
\* The connections listed by the ports of type t of a node state.
ListedOn(st, t) ==
    {c \in Conns : \E k \in DOMAIN st.ports[t] :
        \E j \in DOMAIN ConnsOf(st, st.ports[t][k].port) :
            ConnsOf(st, st.ports[t][k].port)[j] = c}

\* C18: when connection c is on the port at index i of type t as the ports
\* were last read, and the re-indexing that the model's present port counts
\* ask for can be done, erase_connection(t, i, c) raises nothing, leaves c
\* on no port of type t and leaves every other connection where a port
\* lists it.
C18_EraseAfterReindex ==
    \A t \in PortTypeSet : \A c \in Conns :
        \A k \in DOMAIN ports[t] :
            (/\ c \in ListedOn([Cur EXCEPT !.ports[t] = <<ports[t][k]>>], t)
             /\ UpdatePorts(Cur).err = "none")
            => \A r \in {DoEraseConnection(Cur, t, ports[t][k].key, c).st} :
                  /\ r.err = "none"
                  /\ c \notin ListedOn(r, t)
                  /\ \A t2 \in PortTypeSet :
                        ListedOn(r, t2) \ {c} = ListedOn(Cur, t2) \ {c}

----------------------------------------------------------------------------
\* examples/tree.py, MultiChildNodeModel: the model of a node whose number
\* of output ports follows the number of its output connections.
TreeConns == 1..(NumConns + 1)
MaxChildren == (-1)..(NumConns + 1)

Tree ==
    [num_ports |-> num_ports, data_type |-> data_type,
     port_caption_visible |-> port_caption_visible,
     output_connections |-> output_connections,
     max_children |-> max_children]

Min(a, b) == IF a <= b THEN a ELSE b

Recorded(m, c) ==
    \E j \in DOMAIN m.output_connections : m.output_connections[j] = c

\* An _update_output_info that does not look at max_children.
UpdateOutputInfoNoCap(m) ==
    Let(Len(m.output_connections) + 1, LAMBDA num_new_conn :
        [m EXCEPT !.num_ports["output"] = num_new_conn,
                  !.port_caption_visible["output"] = 0..(num_new_conn - 1),
                  !.data_type["output"] = 0..(num_new_conn - 1)])

\* MultiChildNodeModel._update_output_info
UpdateOutputInfo(m) ==
    Let(IF m.max_children > 0
        THEN Min(Len(m.output_connections) + 1, m.max_children)
        ELSE Len(m.output_connections) + 1, LAMBDA num_new_conn :
        [m EXCEPT !.num_ports["output"] = num_new_conn,
                  !.port_caption_visible["output"] = 0..(num_new_conn - 1),
                  !.data_type["output"] = 0..(num_new_conn - 1)])

\* MultiChildNodeModel.output_connection_created
DoOutputConnectionCreated(m, c) ==
    IF Recorded(m, c) THEN m
    ELSE UpdateOutputInfo(
             [m EXCEPT !.output_connections = Append(@, c)])

\* MultiChildNodeModel.output_connection_deleted
DoOutputConnectionDeleted(m, c) ==
    IF ~Recorded(m, c) THEN m
    ELSE UpdateOutputInfo(
             [m EXCEPT !.output_connections =
                           SelectSeq(@, LAMBDA x : x # c)])

StoreTree(m) ==
    /\ num_ports' = m.num_ports
    /\ data_type' = m.data_type
    /\ port_caption_visible' = m.port_caption_visible
    /\ output_connections' = m.output_connections
    /\ max_children' = m.max_children

\* The model on its own: the node state is not read, nothing is drawn.
TreeElseIdle ==
    UNCHANGED <<ports, heap, conn_ports, did, modelVars, geomVars, sync, ret,
                paintVars, dragVars>>

OutputConnectionCreated(c) ==
    /\ StoreTree(DoOutputConnectionCreated(Tree, c))
    /\ called' = [op |-> "created", connection |-> c,
                  changed |-> ~Recorded(Tree, c)]
    /\ TreeElseIdle

OutputConnectionDeleted(c) ==
    /\ StoreTree(DoOutputConnectionDeleted(Tree, c))
    /\ called' = [op |-> "deleted", connection |-> c,
                  changed |-> Recorded(Tree, c)]
    /\ TreeElseIdle

\* MultiChildNodeModel.__init__
TreeInit ==
    /\ InitNodeState([t \in PortTypeSet |-> 1])
    /\ layout = "horizontal"
    /\ caption_visible = TRUE
    /\ validation = "warning"
    /\ widget = FALSE
    /\ InitNodeGeometry
    /\ NothingPainted
    /\ NothingDragged
    /\ output_connections = <<>>
    /\ data_type = [t \in {"input", "output"} |-> {0}]
    /\ port_caption_visible = [t \in {"input", "output"} |-> {0}]
    /\ max_children \in MaxChildren
    /\ called = NoCall

TreeNext ==
    \/ \E c \in TreeConns : OutputConnectionCreated(c)
    \/ \E c \in TreeConns : OutputConnectionDeleted(c)

TreeSpec == TreeInit /\ [][TreeNext]_vars

\* C19: for MultiChildNodeModel, after any calls of
\* output_connection_created and output_connection_deleted, repeated
\* creations and deletions of unrecorded connections included,
\* output_connections holds no duplicates, num_ports['output'] is
\* len(output_connections) + 1, capped at max_children when max_children > 0,
\* and at least 1, the keys of data_type['output'] and of
\* port_caption_visible['output'] are 0..num_ports['output']-1, and the input
\* side is as constructed.
C19_OutputInfo ==
    /\ \A j, k \in DOMAIN output_connections :
           output_connections[j] = output_connections[k] => j = k
    /\ num_ports["output"] =
           IF max_children > 0
           THEN Min(Len(output_connections) + 1, max_children)
           ELSE Len(output_connections) + 1
    /\ num_ports["output"] >= 1
    /\ data_type["output"] = 0..(num_ports["output"] - 1)
    /\ port_caption_visible["output"] = 0..(num_ports["output"] - 1)
    /\ num_ports["input"] = 1
    /\ data_type["input"] = {0}
    /\ port_caption_visible["input"] = {0}

\* An already recorded connection was created again while the cap binds.
C19_Witness ==
    /\ called.op = "created"
    /\ ~called.changed
    /\ max_children > 0
    /\ Len(output_connections) + 1 > max_children
====
